---- MODULE Spec2Model ----
(***************************************************************************)
(* A model of the melonJS shape classes me.Polygon (src/unnamed/part_000)  *)
(* and me.Ellipse (src/src/shapes/ellipse.js).                             *)
(*                                                                         *)
(* Numbers: a Polygon coordinate is <<a, b, e, r>>, a double next to the   *)
(* real (a + b * sqrt(2)) / 2^e, the numbers that toIso() and to2d() lead  *)
(* to, with r telling whether it has been rounded on the way; an Ellipse  *)
(* field is <<n, d, r>>, a double next to the rational n / d in lowest     *)
(* terms, with r as for a Polygon.  Angles are whole quarter turns q.  A   *)
(* unit normal is kept as [x, y, d], standing for (x/sqrt(d), y/sqrt(d)).  *)
(*                                                                         *)
(* Objects: a Polygon holds a reference to its points array; the arrays    *)
(* live in a heap, so that two Polygons holding the same reference share   *)
(* their vertices.                                                         *)
(***************************************************************************)
EXTENDS Integers, Sequences, FiniteSets, TLC

VARIABLES
    poly,      \* [PolyIds -> Polygon object]; .alive = FALSE before construction
    arrays,    \* the heap of points arrays: [Refs -> Seq(Vector2d)]
    ell,       \* the Ellipse object
    cloned,    \* the Ellipse the last clone() of it returned
    last,      \* the last call: its name, receiver, outcome, and what it was given
    calls      \* the number of calls made since construction

vars == <<poly, arrays, ell, cloned, last, calls>>

---------------------------------------------------------------------------
(* Bounds of the model *)

\* the number of calls explored after the construction of a shape
MaxCalls == 3

---------------------------------------------------------------------------
(* Small arithmetic helpers *)

Abs(n) == IF n < 0 THEN -n ELSE n

Max2(a, b) == IF a > b THEN a ELSE b

Sgn(n) == IF n > 0 THEN 1 ELSE IF n < 0 THEN -1 ELSE 0

---------------------------------------------------------------------------
(* The numbers of a Polygon.  <<a, b, e, r>> is a double whose computation, *)
(* carried out on reals, gives (a + b * sqrt(2)) / 2^e; a and b are not    *)
(* both even unless e = 0.  r = 0: the double is that number exactly, as   *)
(* it is for integers and their sums, differences and products.  r = 1:    *)
(* the computation went through a rounded factor (Math.SQRT2,              *)
(* Math.SQRT1_2, Math.cos, Math.sin), and the double is that number up to  *)
(* the rounding error of the last bits, which is not modelled: where two   *)
(* such numbers are compared and the reals are equal, the comparison can   *)
(* go either way.                                                          *)

RECURSIVE Pow2(_)
Pow2(n) == IF n = 0 THEN 1 ELSE 2 * Pow2(n - 1)

\* lowest terms
RECURSIVE RNorm(_, _, _, _)
RNorm(a, b, e, r) ==
    IF e > 0 /\ a % 2 = 0 /\ b % 2 = 0
    THEN RNorm(a \div 2, b \div 2, e - 1, r)
    ELSE <<a, b, e, r>>

\* the integer i
Num(i) == <<i, 0, 0, 0>>

\* the real is 0
RIsZero(x) == x[1] = 0 /\ x[2] = 0

\* the double is 0
RExactZero(x) == RIsZero(x) /\ x[4] = 0

\* x, rounded
RRounded(x) == <<x[1], x[2], x[3], 1>>

RAdd(x, y) ==
    LET e == Max2(x[3], y[3])
        kx == Pow2(e - x[3])
        ky == Pow2(e - y[3])
    IN  IF e = 0 THEN <<x[1] + y[1], x[2] + y[2], 0, Max2(x[4], y[4])>>
        ELSE RNorm(kx * x[1] + ky * y[1], kx * x[2] + ky * y[2], e, Max2(x[4], y[4]))

RNeg(x) == <<-x[1], -x[2], x[3], x[4]>>

RSub(x, y) == RAdd(x, RNeg(y))

\* k * x, k one of the integers 0, 1, -1, 2, whose products are exact
RTimes(k, x) == IF k = 0 THEN Num(0) ELSE RNorm(k * x[1], k * x[2], x[3], x[4])

\* x * y
RMul(x, y) ==
    IF RExactZero(x) \/ RExactZero(y) THEN Num(0)
    ELSE RNorm(x[1] * y[1] + 2 * x[2] * y[2], x[1] * y[2] + x[2] * y[1], x[3] + y[3],
               Max2(x[4], y[4]))

\* x * Math.SQRT2: rounded, unless x is 0
RRoot2(x) == IF RExactZero(x) THEN x ELSE RNorm(2 * x[2], x[1], x[3], 1)

\* x * Math.SQRT1_2, x * Math.cos(PI / 4), x * Math.sin(PI / 4): rounded, unless
\* x is 0
RRootHalf(x) == IF RExactZero(x) THEN x ELSE RNorm(2 * x[2], x[1], x[3] + 1, 1)

\* p / q > sqrt(2) for integers p, q > 0, by the continued fraction of sqrt(2)
RECURSIVE GtRoot2(_, _)
GtRoot2(p, q) ==
    IF p <= q THEN FALSE
    ELSE IF p >= 2 * q THEN TRUE
    ELSE ~GtRoot2(2 * q - p, p - q)

\* the sign of the real a + b * sqrt(2)
RSgn(x) ==
    IF x[2] = 0 THEN Sgn(x[1])
    ELSE IF x[1] = 0 THEN Sgn(x[2])
    ELSE IF Sgn(x[1]) = Sgn(x[2]) THEN Sgn(x[1])
    ELSE IF GtRoot2(Abs(x[1]), Abs(x[2])) THEN Sgn(x[1]) ELSE Sgn(x[2])

\* comparisons of the reals; they are the comparisons of the doubles unless the
\* reals are equal and one of the doubles is rounded
RLt(x, y) == RSgn(RSub(x, y)) < 0

RGt(x, y) == RSgn(RSub(x, y)) > 0

RLe(x, y) == RSgn(RSub(x, y)) <= 0

REq(x, y) == RIsZero(RSub(x, y))

\* the values the comparison d > 0 of the double d can have: where the real is
\* 0 and the double is rounded, the double can be above, below or at 0
RPositive(d) == IF RIsZero(d) /\ d[4] = 1 THEN BOOLEAN ELSE {RSgn(d) > 0}

\* Math.min over S: where the least real is also that of a rounded double, the
\* least double is rounded
SetMin(S) ==
    LET m == CHOOSE m \in S : \A k \in S : RLe(m, k)
    IN  <<m[1], m[2], m[3], IF \E k \in S : REq(k, m) /\ k[4] = 1 THEN 1 ELSE 0>>

SetMax(S) ==
    LET m == CHOOSE m \in S : \A k \in S : RLe(k, m)
    IN  <<m[1], m[2], m[3], IF \E k \in S : REq(k, m) /\ k[4] = 1 THEN 1 ELSE 0>>

\* angles are quarter turns: the integers that Math.cos / Math.sin of q * PI/2
\* are, or are next to (Math.cos(Math.PI / 2) is 6.1e-17)
Cos(q) == CASE q % 4 = 0 -> 1 [] q % 4 = 1 -> 0 [] q % 4 = 2 -> -1 [] OTHER -> 0

Sin(q) == CASE q % 4 = 0 -> 0 [] q % 4 = 1 -> 1 [] q % 4 = 2 -> 0 [] OTHER -> -1

---------------------------------------------------------------------------
(* me.Vector2d (vector2.js is not among the sources) *)

Vec(x, y) == [x |-> x, y |-> y]

\* an optional argument is <<>> when absent (undefined), <<value>> when given
Undefined == <<>>

\* the vector of two integers
IntVec(x, y) == Vec(Num(x), Num(y))

Vector2d_sub(a, b) == Vec(RSub(a.x, b.x), RSub(a.y, b.y))

Vector2d_perp(v) == Vec(v.y, RNeg(v.x))

\* v / (length || 1), kept as (x, y) over sqrt(d)
Vector2d_normalize(v) ==
    LET lenSq == RAdd(RMul(v.x, v.x), RMul(v.y, v.y))
    IN  [d |-> IF RExactZero(lenSq) THEN Num(1) ELSE lenSq,
         x |-> v.x, y |-> v.y]

\* x and y are integers
Vector2d_scale(v, x, y) == Vec(RTimes(x, v.x), RTimes(y, v.y))

\* x * Math.cos(angle) or x * Math.sin(angle), k the integer Cos(angle) or
\* Sin(angle): 1 and -1 are exact, and so is 0 for the angle 0; otherwise the
\* factor is a rounding residue next to 0, and so is the product unless x is 0
RTrig(k, angle, x) ==
    IF k # 0 \/ angle = 0 \/ RExactZero(x) THEN RTimes(k, x) ELSE RRounded(Num(0))

Vector2d_rotate(v, angle, pivot) ==
    LET cx == IF pivot = Undefined THEN Num(0) ELSE pivot[1].x
        cy == IF pivot = Undefined THEN Num(0) ELSE pivot[1].y
        x == RSub(v.x, cx)
        y == RSub(v.y, cy)
        c == Cos(angle)
        s == Sin(angle)
    IN  Vec(RAdd(RSub(RTrig(c, angle, x), RTrig(s, angle, y)), cx),
            RAdd(RAdd(RTrig(s, angle, x), RTrig(c, angle, y)), cy))

\* rotate(turn * PI / 4), turn = 1 or -1, about (0, 0): cos is SQRT1_2 and
\* sin is turn * SQRT1_2
Vector2d_rotateEighth(v, turn) ==
    Vec(RSub(RRootHalf(v.x), RTimes(turn, RRootHalf(v.y))),
        RAdd(RTimes(turn, RRootHalf(v.x)), RRootHalf(v.y)))

\* scale(Math.SQRT2, Math.SQRT1_2)
Vector2d_scaleIso(v) == Vec(RRoot2(v.x), RRootHalf(v.y))

\* scale(Math.SQRT1_2, Math.SQRT2)
Vector2d_scale2d(v) == Vec(RRootHalf(v.x), RRoot2(v.y))

\* me.Matrix2d.apply on the matrix [a c e; b d f; 0 0 1]; a, b, c, d are
\* integers
Matrix2d_apply(m, v) ==
    Vec(RAdd(RAdd(RTimes(m.a, v.x), RTimes(m.c, v.y)), m.e),
        RAdd(RAdd(RTimes(m.b, v.x), RTimes(m.d, v.y)), m.f))

---------------------------------------------------------------------------
(* me.Bounds (bounds.js is not among the sources) *)

Box(minX, minY, maxX, maxY) == [min |-> Vec(minX, minY), max |-> Vec(maxX, maxY)]

\* a Bounds as pool.pull("Bounds") hands it out, or after clear(): it encloses
\* nothing (min = +Infinity, max = -Infinity)
EmptyBounds == [min |-> <<>>, max |-> <<>>]

\* Bounds.update(points): clear, then grow to enclose every point
Bounds_update(points) ==
    LET xs == {points[i].x : i \in 1..Len(points)}
        ys == {points[i].y : i \in 1..Len(points)}
    IN  IF Len(points) = 0 THEN EmptyBounds
        ELSE Box(SetMin(xs), SetMin(ys), SetMax(xs), SetMax(ys))

\* Infinity + x = Infinity: an empty Bounds stays empty
Bounds_translate(b, x, y) ==
    IF b = EmptyBounds THEN b
    ELSE Box(RAdd(b.min.x, x), RAdd(b.min.y, y), RAdd(b.max.x, x), RAdd(b.max.y, y))

---------------------------------------------------------------------------
(* me.Polygon: objects and heap *)

PolyIds == {1, 2}

\* references to points arrays; Null is the initial this.points = null
Null == 0

Refs == 1..(Cardinality(PolyIds) + 1)

NoPolygon ==
    [points |-> Null, alive |-> FALSE, pos |-> IntVec(0, 0), edges |-> <<>>,
     normals |-> <<>>, indices |-> <<>>, bounds |-> <<>>]

\* the object graph an operation works on, and whether it has thrown
World == [poly |-> poly, arrays |-> arrays, threw |-> FALSE, tri |-> FALSE]

\* a reference no live Polygon holds (a newly allocated array)
FreshRef(w) ==
    CHOOSE r \in Refs :
        /\ \A i \in PolyIds : ~(w.poly[i].alive /\ w.poly[i].points = r)
        /\ \A q \in Refs :
               (\A i \in PolyIds : ~(w.poly[i].alive /\ w.poly[i].points = q)) => r <= q

\* arrays no live Polygon refers to are garbage
Collect(w) ==
    [r \in Refs |->
        IF \E i \in PolyIds : w.poly[i].alive /\ w.poly[i].points = r
        THEN w.arrays[r] ELSE <<>>]

\* this.points is still the null of init
Polygon_pointsIsNull(w, id) == w.poly[id].points = Null

\* the elements of this.points (none while it is null)
PointsOf(w, id) ==
    IF Polygon_pointsIsNull(w, id) THEN <<>> ELSE w.arrays[w.poly[id].points]

\* a TypeError (a property of null is read) or an Error is thrown: the call ends
Throw(w) == [w EXCEPT !.threw = TRUE]

---------------------------------------------------------------------------
(* the points argument of setShape / setVertices *)

\* the array of me.Vector2d at reference r
VecArrayAt(r) == [kind |-> "Vector2d", ref |-> r, data |-> <<>>]

\* an array of plain {x, y} objects
ObjArray(pts) == [kind |-> "object", ref |-> Null, data |-> pts]

\* a flat array of numbers x0, y0, x1, y1, ...
FlatArray(pts) ==
    [kind |-> "number", ref |-> Null,
     data |-> [k \in 1..(2 * Len(pts)) |->
                  IF k % 2 = 1 THEN pts[(k + 1) \div 2].x ELSE pts[k \div 2].y]]

\* anything that is not an array
NotArray == [kind |-> "none", ref |-> Null, data |-> <<>>]

isArray(vertices) == vertices.kind # "none"

\* points.flatMap(p => [p.x, p.y])
Flat(pts) ==
    [k \in 1..(2 * Len(pts)) |->
        IF k % 2 = 1 THEN pts[(k + 1) \div 2].x ELSE pts[k \div 2].y]

\* the conversion of the given points to me.Vector2d
\* (in a flat array of odd length the last y is undefined, and
\* new Vector2d(x, undefined) has y = 0)
toPoints(vertices) ==
    IF vertices.kind = "number"
    THEN [k \in 1..((Len(vertices.data) + 1) \div 2) |->
             Vec(vertices.data[2 * k - 1],
                 IF 2 * k <= Len(vertices.data) THEN vertices.data[2 * k] ELSE Num(0))]
    ELSE [k \in 1..Len(vertices.data) |-> Vec(vertices.data[k].x, vertices.data[k].y)]

---------------------------------------------------------------------------
(* earcut, the triangulator (an npm dependency, not among the sources):    *)
(* ear clipping over the ring of vertex indices; its fallback passes for   *)
(* rings without an ear are left out (the triangles found so far are       *)
(* returned).                                                              *)

\* the i-th point (from 0) of a flat coordinate array
FlatPoint(data, i) == Vec(data[2 * i + 1], data[2 * i + 2])

earcut_signedArea(data) ==
    LET n == Len(data) \div 2
        term[i \in 0..(n - 1)] ==
            LET j == (i + n - 1) % n
            IN  RMul(RSub(FlatPoint(data, j).x, FlatPoint(data, i).x),
                     RAdd(FlatPoint(data, i).y, FlatPoint(data, j).y))
        sum[k \in 0..n] == IF k = 0 THEN Num(0) ELSE RAdd(sum[k - 1], term[k - 1])
    IN  sum[n]

earcut_area(p, q, r) ==
    RSub(RMul(RSub(q.y, p.y), RSub(r.x, q.x)), RMul(RSub(q.x, p.x), RSub(r.y, q.y)))

earcut_pointInTriangle(a, b, c, p) ==
    /\ RSgn(RSub(RMul(RSub(c.x, p.x), RSub(a.y, p.y)),
                 RMul(RSub(a.x, p.x), RSub(c.y, p.y)))) >= 0
    /\ RSgn(RSub(RMul(RSub(a.x, p.x), RSub(b.y, p.y)),
                 RMul(RSub(b.x, p.x), RSub(a.y, p.y)))) >= 0
    /\ RSgn(RSub(RMul(RSub(b.x, p.x), RSub(c.y, p.y)),
                 RMul(RSub(c.x, p.x), RSub(b.y, p.y)))) >= 0

\* the ring, as the indices met from the start node following next: the nodes
\* are linked in clockwise order, and the start node is the last one inserted
earcut_linkedList(data) ==
    LET n == Len(data) \div 2
    IN  IF n = 0 THEN <<>>
        ELSE IF RSgn(earcut_signedArea(data)) > 0
        THEN [k \in 1..n |-> (n - 1 + (k - 1)) % n]
        ELSE [k \in 1..n |-> (n - (k - 1)) % n]

\* ring[1] is the ear, ring[2] its next, ring[Len] its prev
earcut_isEar(data, ring) ==
    LET m == Len(ring)
        a == FlatPoint(data, ring[m])
        b == FlatPoint(data, ring[1])
        c == FlatPoint(data, ring[2])
    IN  /\ ~(RSgn(earcut_area(a, b, c)) >= 0)
        /\ \A k \in 3..(m - 1) :
               ~(/\ earcut_pointInTriangle(a, b, c, FlatPoint(data, ring[k]))
                 /\ RSgn(earcut_area(FlatPoint(data, ring[k - 1]), FlatPoint(data, ring[k]),
                                     FlatPoint(data, ring[(k % m) + 1]))) >= 0)

RECURSIVE earcut_earcutLinked(_, _, _, _)
earcut_earcutLinked(data, ring, tried, triangles) ==
    LET m == Len(ring)
    IN  IF m <= 2 THEN triangles
        ELSE IF earcut_isEar(data, ring)
        THEN earcut_earcutLinked(data,
                 [k \in 1..(m - 1) |-> IF k <= m - 2 THEN ring[k + 2] ELSE ring[2]],
                 0, triangles \o <<ring[m], ring[1], ring[2]>>)
        ELSE IF tried + 1 >= m THEN triangles
        ELSE earcut_earcutLinked(data,
                 [k \in 1..m |-> ring[(k % m) + 1]], tried + 1, triangles)

earcut(data) ==
    LET ring == earcut_linkedList(data)
        first == FlatPoint(data, ring[1])
        second == FlatPoint(data, ring[2])
        \* a closing point equal to the first one is dropped
        outer == IF Len(ring) >= 2 /\ first = second
                 THEN [k \in 1..(Len(ring) - 1) |-> ring[k + 1]] ELSE ring
    IN  IF Len(outer) <= 2 THEN <<>> ELSE earcut_earcutLinked(data, outer, 0, <<>>)

---------------------------------------------------------------------------
(* me.Polygon: methods, as functions from the world before to the world    *)
(* after; w.threw records a thrown Error, which ends the call              *)

\* (mutant of Polygon_truncate: the array keeps its old length)
Polygon_truncate_Skipped(arr, len) == arr

\* arr.length = len
Polygon_truncate(arr, len) == SubSeq(arr, 1, len)

\* the edges loop of recalc: entry i is written for i < len, created if absent;
\* entries from len on are the old ones
Polygon_recalcEdges(edges, points) ==
    LET len == Len(points)
    IN  [i \in 1..Max2(len, Len(edges)) |->
            IF i <= len THEN Vector2d_sub(points[(i % len) + 1], points[i])
            ELSE edges[i]]

\* the normals loop of recalc
Polygon_recalcNormals(normals, points) ==
    LET len == Len(points)
    IN  [i \in 1..Max2(len, Len(normals)) |->
            IF i <= len
            THEN Vector2d_normalize(
                     Vector2d_perp(Vector2d_sub(points[(i % len) + 1], points[i])))
            ELSE normals[i]]

Polygon_recalc(w, id) ==
    LET this == w.poly[id]
        points == PointsOf(w, id)
        len == Len(points)
    IN  IF Polygon_pointsIsNull(w, id) \/ len < 3
        THEN Throw(w)
        ELSE [w EXCEPT !.poly[id].edges = Polygon_truncate(Polygon_recalcEdges(this.edges, points), len),
                       !.poly[id].normals = Polygon_truncate(Polygon_recalcNormals(this.normals, points), len),
                       !.poly[id].indices = <<>>]

\* the Bounds is pulled from the pool the first time it is asked for
Polygon_getBounds(w, id) ==
    IF w.poly[id].bounds = Undefined THEN [w EXCEPT !.poly[id].bounds = EmptyBounds] ELSE w

\* (bounds.update(null) throws on a Bounds that is empty already)
Polygon_updateBounds(w, id) ==
    LET this == w.poly[id]
        w1 == Polygon_getBounds(w, id)
        updated == Bounds_update(PointsOf(w, id))
    IN  IF Polygon_pointsIsNull(w, id)
        THEN Throw(w1)
        ELSE [w1 EXCEPT !.poly[id].bounds =
                            Bounds_translate(updated, this.pos.x, this.pos.y)]

\* this.recalc(); this.updateBounds();
Polygon_recalcAndUpdateBounds(w, id) ==
    LET w1 == Polygon_recalc(w, id)
    IN  IF w1.threw THEN w1 ELSE Polygon_updateBounds(w1, id)

Polygon_setVertices(w, id, vertices) ==
    IF ~isArray(vertices)
    THEN w
    ELSE LET r == FreshRef(w)
             isVector2d == vertices.kind = "Vector2d" /\ Len(w.arrays[vertices.ref]) > 0
             w1 == IF ~isVector2d
                   THEN [w EXCEPT !.arrays[r] = toPoints(vertices), !.poly[id].points = r]
                   ELSE [w EXCEPT !.poly[id].points = vertices.ref]
         IN  Polygon_recalcAndUpdateBounds(w1, id)

Polygon_setShape(w, id, x, y, points) ==
    Polygon_setVertices([w EXCEPT !.poly[id].pos = Vec(x, y)], id, points)

\* the loop over this.points has made them moved (points.length throws on
\* null), then recalc() and updateBounds()
Polygon_movePoints(w, id, moved) ==
    IF Polygon_pointsIsNull(w, id)
    THEN Throw(w)
    ELSE Polygon_recalcAndUpdateBounds([w EXCEPT !.arrays[w.poly[id].points] = moved], id)

Polygon_transform(w, id, m) ==
    LET points == PointsOf(w, id)
    IN  Polygon_movePoints(w, id, [i \in 1..Len(points) |-> Matrix2d_apply(m, points[i])])

Polygon_rotate(w, id, angle, v) ==
    LET points == PointsOf(w, id)
    IN  IF angle # 0
        THEN Polygon_movePoints(w, id,
                 [i \in 1..Len(points) |-> Vector2d_rotate(points[i], angle, v)])
        ELSE w

Polygon_scale(w, id, x, yArg) ==
    LET y == IF yArg # Undefined THEN yArg[1] ELSE x
        points == PointsOf(w, id)
    IN  Polygon_movePoints(w, id, [i \in 1..Len(points) |-> Vector2d_scale(points[i], x, y)])

Polygon_scaleV(w, id, v) == Polygon_scale(w, id, v.x, <<v.y>>)

\* this.rotate(Math.PI / 4).scale(Math.SQRT2, Math.SQRT1_2): when the first
\* call throws, the second is not made
Polygon_toIso(w, id) ==
    LET points == PointsOf(w, id)
        w1 == Polygon_movePoints(w, id,
                  [i \in 1..Len(points) |-> Vector2d_rotateEighth(points[i], 1)])
        rotated == PointsOf(w1, id)
    IN  IF w1.threw THEN w1
        ELSE Polygon_movePoints(w1, id,
                 [i \in 1..Len(rotated) |-> Vector2d_scaleIso(rotated[i])])

\* this.scale(Math.SQRT1_2, Math.SQRT2).rotate(-Math.PI / 4)
Polygon_to2d(w, id) ==
    LET points == PointsOf(w, id)
        w1 == Polygon_movePoints(w, id,
                  [i \in 1..Len(points) |-> Vector2d_scale2d(points[i])])
        scaled == PointsOf(w1, id)
    IN  IF w1.threw THEN w1
        ELSE Polygon_movePoints(w1, id,
                 [i \in 1..Len(scaled) |-> Vector2d_rotateEighth(scaled[i], -1)])

Polygon_getIndices(w, id) ==
    IF Len(w.poly[id].indices) = 0
    THEN IF Polygon_pointsIsNull(w, id)
         THEN Throw(w)
         ELSE [w EXCEPT !.poly[id].indices = earcut(Flat(PointsOf(w, id))), !.tri = TRUE]
    ELSE w

\* (mutant of Polygon_translate: the vertices are moved instead of the origin)
Polygon_translate_MovesVertices(w, id, args) ==
    LET x == IF args.length = 2 THEN args.x ELSE args.v.x
        y == IF args.length = 2 THEN args.y ELSE args.v.y
        points == PointsOf(w, id)
    IN  IF Polygon_pointsIsNull(w, id) THEN w
        ELSE [w EXCEPT !.arrays[w.poly[id].points] =
                           [i \in 1..Len(points) |->
                               Vec(RAdd(points[i].x, x), RAdd(points[i].y, y))],
                       !.poly[id].bounds = Bounds_translate(w.poly[id].bounds, x, y)]

\* args is the arguments list: (x, y) when args.length = 2, else the vector (x, y)
Polygon_translate(w, id, args) ==
    LET x == IF args.length = 2 THEN args.x ELSE args.v.x
        y == IF args.length = 2 THEN args.y ELSE args.v.y
        this == Polygon_getBounds(w, id).poly[id]
    IN  [w EXCEPT !.poly[id].pos = Vec(RAdd(this.pos.x, x), RAdd(this.pos.y, y)),
                  !.poly[id].bounds = Bounds_translate(this.bounds, x, y)]

\* (mutant of Polygon_containsVertex: the vertex is not offset by the origin)
Polygon_containsVertex_NoOrigin(pos, points, i) == points[i]

\* (ix, iy): vertex i offset by the origin
Polygon_containsVertex(pos, points, i) ==
    Vec(RAdd(points[i].x, pos.x), RAdd(points[i].y, pos.y))

\* the values (iy > _y) can have, vi the offset vertex i
Polygon_containsAbove(vi, y) == RPositive(RSub(vi.y, y))

\* the values (_x < (jx - ix) * (_y - iy) / (jy - iy) + ix) can have for the
\* edge (j, i), j the vertex before i, where (iy > _y) differs from (jy > _y);
\* on reals it is  (_x - ix) * (jy - iy) < (jx - ix) * (_y - iy)  for
\* jy > iy, and > for jy < iy
Polygon_containsLeft(vi, vj, x, y) ==
    LET d == RSub(vj.y, vi.y)
        lhs == RMul(RSub(x, vi.x), d)
        rhs == RMul(RSub(vj.x, vi.x), RSub(y, vi.y))
    IN  IF RIsZero(d)
        \* iy and jy differ by their roundings only: the quotient is anywhere
        \* from 0 to 1, and the right-hand side anywhere from ix to jx
        THEN IF RLt(x, vi.x) /\ RLt(x, vj.x) THEN {TRUE}
             ELSE IF RGt(x, vi.x) /\ RGt(x, vj.x) THEN {FALSE}
             ELSE BOOLEAN
        ELSE IF RSgn(d) > 0 THEN RPositive(RSub(rhs, lhs)) ELSE RPositive(RSub(lhs, rhs))

\* contains on the given origin and vertices: the values it can return, one
\* value unless a comparison of the loop is a tie of rounded numbers (the
\* second comparison is made only where the first can hold).  ups are the
\* vertices taken to be above _y among those that can be either, lefts the
\* edges taken to be crossed to the right of _x among those that can be either
Polygon_containsPoint(pos, points, x, y) ==
    LET len == Len(points)
        v == [i \in 1..len |-> Polygon_containsVertex(pos, points, i)]
        above == [i \in 1..Len(v) |-> Polygon_containsAbove(v[i], y)]
        left == [i \in 1..Len(above) |->
                    LET j == IF i = 1 THEN len ELSE i - 1
                    IN  IF above[i] = above[j] /\ above[i] # BOOLEAN THEN {FALSE}
                        ELSE Polygon_containsLeft(v[i], v[j], x, y)]
    IN  {Cardinality({i \in 1..len :
             LET j == IF i = 1 THEN len ELSE i - 1
             IN  /\ (IF above[i] = BOOLEAN THEN i \in ups ELSE TRUE \in above[i])
                        # (IF above[j] = BOOLEAN THEN j \in ups ELSE TRUE \in above[j])
                 /\ IF left[i] = BOOLEAN THEN i \in lefts ELSE TRUE \in left[i]}) % 2 = 1 :
         ups \in SUBSET {i \in 1..Len(left) : above[i] = BOOLEAN},
         lefts \in SUBSET {i \in 1..Len(left) : left[i] = BOOLEAN}}

\* contains reads points.length: a TypeError while this.points is null
Polygon_containsThrows(w, id) == Polygon_pointsIsNull(w, id)

\* what contains can return when it returns
Polygon_contains(w, id, x, y) == Polygon_containsPoint(w.poly[id].pos, PointsOf(w, id), x, y)

\* (mutant of Polygon_clonePoints: the points array itself is handed over)
Polygon_clonePoints_Shared(w, id) == w.poly[id].points

\* the copy of the points array that clone hands to the new Polygon
Polygon_clonePoints(w, id) == FreshRef(w)

\* new Polygon(x, y, points), constructed as object `new`
Polygon_init(w, new, x, y, points) ==
    Polygon_setShape([w EXCEPT !.poly[new] = [NoPolygon EXCEPT !.alive = TRUE]],
                     new, x, y, points)

Polygon_clone(w, id, new) ==
    LET this == w.poly[id]
        r == Polygon_clonePoints(w, id)
        w1 == [w EXCEPT !.arrays[r] = PointsOf(w, id)]
    IN  IF Polygon_pointsIsNull(w, id)
        THEN Throw(w)
        ELSE Polygon_init(w1, new, this.pos.x, this.pos.y, VecArrayAt(r))

---------------------------------------------------------------------------
(* The numbers of an Ellipse.  <<n, d, r>> is a double whose computation,  *)
(* carried out on reals, gives the rational n / d, d > 0, in lowest terms. *)
(* r = 0: the double is that number exactly, as it is for the integers,    *)
(* halves and quarters of the sizes and scale factors used here.  r = 1:   *)
(* the computation went through Math.cos or Math.sin of a quarter turn,    *)
(* and the double is that number up to a rounding error that is not        *)
(* modelled.                                                               *)

RECURSIVE GCD(_, _)
GCD(a, b) == IF b = 0 THEN Abs(a) ELSE GCD(b, a % b)

\* n / d, exact
Q(n, d) ==
    LET g == GCD(Abs(n), Abs(d))
        sgn == IF d < 0 THEN -1 ELSE 1
    IN  <<sgn * (n \div g), sgn * (d \div g), 0>>

QInt(i) == <<i, 1, 0>>

\* q, rounded if r = 1
QFlag(q, r) == <<q[1], q[2], r>>

\* the double is 0
QExactZero(a) == a[1] = 0 /\ a[3] = 0

QAdd(a, b) == QFlag(Q(a[1] * b[2] + b[1] * a[2], a[2] * b[2]), Max2(a[3], b[3]))

QSub(a, b) == QFlag(Q(a[1] * b[2] - b[1] * a[2], a[2] * b[2]), Max2(a[3], b[3]))

QNeg(a) == <<-a[1], a[2], a[3]>>

QMul(a, b) ==
    IF QExactZero(a) \/ QExactZero(b) THEN QInt(0)
    ELSE QFlag(Q(a[1] * b[1], a[2] * b[2]), Max2(a[3], b[3]))

\* a / b, b # 0
QDiv(a, b) ==
    IF QExactZero(a) THEN QInt(0)
    ELSE QFlag(Q(a[1] * b[2], a[2] * b[1]), Max2(a[3], b[3]))

\* comparisons of the reals; they are the comparisons of the doubles unless the
\* reals are equal and one of the doubles is rounded
QLe(a, b) == a[1] * b[2] <= b[1] * a[2]

QLt(a, b) == a[1] * b[2] < b[1] * a[2]

\* the values the comparison a <= b of the doubles can have
QAtMost(a, b) ==
    IF a[1] * b[2] = b[1] * a[2] /\ Max2(a[3], b[3]) = 1 THEN BOOLEAN ELSE {QLe(a, b)}

\* Math.max
QMax(a, b) == IF QLt(a, b) THEN b ELSE a

---------------------------------------------------------------------------
(* me.Vector2d and me.Bounds on the numbers of an Ellipse *)

QVector2d_scaleV(v, r) == Vec(QMul(v.x, r.x), QMul(v.y, r.y))

\* x * Math.cos(angle) or x * Math.sin(angle), k the integer Cos(angle) or
\* Sin(angle): 1 and -1 are exact, and so is 0 for the angle 0; otherwise the
\* factor is a rounding residue next to 0, and so is the product unless x is 0
QTrig(k, angle, x) ==
    IF k # 0 \/ angle = 0 \/ QExactZero(x) THEN QMul(QInt(k), x) ELSE QFlag(QInt(0), 1)

QVector2d_rotate(v, angle, pivot) ==
    LET cx == IF pivot = Undefined THEN QInt(0) ELSE pivot[1].x
        cy == IF pivot = Undefined THEN QInt(0) ELSE pivot[1].y
        x == QSub(v.x, cx)
        y == QSub(v.y, cy)
        c == Cos(angle)
        s == Sin(angle)
    IN  Vec(QAdd(QSub(QTrig(c, angle, x), QTrig(s, angle, y)), cx),
            QAdd(QAdd(QTrig(s, angle, x), QTrig(c, angle, y)), cy))

QBounds_setMinMax(minX, minY, maxX, maxY) ==
    [min |-> Vec(minX, minY), max |-> Vec(maxX, maxY)]

QBounds_translate(b, x, y) ==
    [min |-> Vec(QAdd(b.min.x, x), QAdd(b.min.y, y)),
     max |-> Vec(QAdd(b.max.x, x), QAdd(b.max.y, y))]

\* Bounds.shift: move the box to (x, y), keeping its width and height
QBounds_shift(b, x, y) ==
    [min |-> Vec(x, y),
     max |-> Vec(QAdd(x, QSub(b.max.x, b.min.x)), QAdd(y, QSub(b.max.y, b.min.y)))]

---------------------------------------------------------------------------
(* me.Ellipse: methods, as functions from the object before to the object after *)

Ellipse_setShape(this, x, y, w, h) ==
    LET hW == QDiv(w, QInt(2))
        hH == QDiv(h, QInt(2))
        radius == QMax(hW, hH)
        ratio == Vec(QDiv(hW, radius), QDiv(hH, radius))
        radiusV == QVector2d_scaleV(Vec(radius, radius), ratio)
        r == QMul(radius, radius)
        radiusSq == QVector2d_scaleV(Vec(r, r), ratio)
        bounds == QBounds_setMinMax(x, y, QAdd(x, w), QAdd(x, h))
    IN  [pos |-> Vec(x, y),
         bounds |-> QBounds_translate(bounds, QNeg(radiusV.x), QNeg(radiusV.y)),
         radius |-> radius, ratio |-> ratio, radiusV |-> radiusV, radiusSq |-> radiusSq]

Ellipse_rotate(this, angle, v) ==
    LET pos == QVector2d_rotate(this.pos, angle, v)
        shifted == QBounds_shift(this.bounds, pos.x, pos.y)
    IN  [this EXCEPT !.pos = pos,
                     !.bounds = QBounds_translate(shifted, QNeg(this.radiusV.x),
                                                  QNeg(this.radiusV.y))]

Ellipse_scale(this, x, yArg) ==
    LET y == IF yArg # Undefined THEN yArg[1] ELSE x
    IN  Ellipse_setShape(this, this.pos.x, this.pos.y,
                         QMul(QMul(this.radiusV.x, QInt(2)), x),
                         QMul(QMul(this.radiusV.y, QInt(2)), y))

Ellipse_scaleV(this, v) == Ellipse_scale(this, v.x, <<v.y>>)

Ellipse_transform(this, m) == this

\* args is the arguments list: (x, y) when args.length = 2, else the vector (x, y)
Ellipse_translate(this, args) ==
    LET x == IF args.length = 2 THEN args.x ELSE args.v.x
        y == IF args.length = 2 THEN args.y ELSE args.v.y
    IN  [this EXCEPT !.pos = Vec(QAdd(this.pos.x, x), QAdd(this.pos.y, y)),
                     !.bounds = QBounds_translate(this.bounds, x, y)]

\* the values contains can return: one value unless the two sides of <= are
\* equal on reals and the center is rounded
Ellipse_contains(this, px, py) ==
    LET x == QSub(px, this.pos.x)
        y == QSub(py, this.pos.y)
    IN  QAtMost(QAdd(QDiv(QMul(x, x), this.radiusSq.x), QDiv(QMul(y, y), this.radiusSq.y)),
                QInt(1))

Ellipse_clone(this) ==
    Ellipse_setShape(this, this.pos.x, this.pos.y,
                     QMul(this.radiusV.x, QInt(2)), QMul(this.radiusV.y, QInt(2)))

---------------------------------------------------------------------------
(* The callers' inputs *)

\* origins and centers (x, y)
Origins == {<<0, 0>>, <<1, 0>>}

Square == <<IntVec(0, 0), IntVec(2, 0), IntVec(2, 2), IntVec(0, 2)>>

Triangle == <<IntVec(0, 0), IntVec(0, 2), IntVec(2, 0)>>

\* too few points for a Polygon
Segment == <<IntVec(0, 0), IntVec(1, 1)>>

Shapes == {Square, Triangle, Segment}

\* a caller's array of me.Vector2d, not yet on the heap
VecInput(pts) == [kind |-> "Vector2d", ref |-> Null, data |-> pts]

\* a flat array of odd length: its last point is (2, undefined)
OddFlat == [kind |-> "number", ref |-> Null, data |-> <<Num(0), Num(0), Num(0), Num(2), Num(2)>>]

PointsInputs ==
    UNION {{VecInput(pts), ObjArray(pts), FlatArray(pts)} : pts \in Shapes}
        \cup {OddFlat, NotArray}

\* the world once the caller has built its argument, and the argument passed
Allocate(w, input) ==
    IF input.kind = "Vector2d" THEN [w EXCEPT !.arrays[FreshRef(w)] = input.data] ELSE w

Argument(w, input) ==
    IF input.kind = "Vector2d" THEN VecArrayAt(FreshRef(w)) ELSE input

Identity == [a |-> 1, b |-> 0, c |-> 0, d |-> 1, e |-> Num(0), f |-> Num(0)]

\* a shear with a shift
Matrices == {[Identity EXCEPT !.c = 1, !.e = Num(1)]}

Angles == {0, 1}

Pivots == {Undefined, <<IntVec(1, 0)>>}

ScaleArgs == {<<1, Undefined>>, <<2, Undefined>>, <<-1, <<1>>>>}

Deltas == {<<1, 0>>, <<0, -1>>}

\* translate(x, y) and translate(v)
ArgsXY(x, y) == [length |-> 2, x |-> x, y |-> y, v |-> IntVec(0, 0)]

ArgsV(v) == [length |-> 1, x |-> Num(0), y |-> Num(0), v |-> v]

TranslateArgs ==
    UNION {{ArgsXY(Num(d[1]), Num(d[2])), ArgsV(IntVec(d[1], d[2]))} : d \in Deltas}

---------------------------------------------------------------------------
(* The Polygon state machine *)

Call(op, id, w, isArr) ==
    [threw |-> w.threw, tri |-> w.tri, id |-> id, op |-> op, array |-> isArr,
     prevLen |-> Len(poly[id].edges), given |-> <<>>]

\* Number.NaN
NaN == <<0, 0, 0>>

\* the fields of an Ellipse when init calls setShape
NoEllipse ==
    [pos |-> Vec(QInt(0), QInt(0)), bounds |-> <<>>, radius |-> NaN,
     ratio |-> Vec(QInt(0), QInt(0)), radiusV |-> Vec(QInt(0), QInt(0)),
     radiusSq |-> Vec(QInt(0), QInt(0))]

\* an Ellipse has been constructed: setShape has set its radius (widths and
\* heights are never 0, so no radius is 0 / 0)
Constructed == ell.radius[2] # 0

NoWorld ==
    [poly |-> [i \in PolyIds |-> NoPolygon], arrays |-> [r \in Refs |-> <<>>],
     threw |-> FALSE, tri |-> FALSE]

MayCall(id) == poly[id].alive /\ calls < MaxCalls

\* the state after a call on a Polygon
Returns(op, id, w, isArr) ==
    /\ poly' = w.poly
    /\ arrays' = Collect(w)
    /\ last' = Call(op, id, w, isArr)
    /\ calls' = calls + 1
    /\ UNCHANGED <<ell, cloned>>

InitPolygon ==
    \E o \in Origins, input \in PointsInputs :
        LET w == Polygon_init(Allocate(NoWorld, input), 1, Num(o[1]), Num(o[2]),
                             Argument(NoWorld, input))
        IN  /\ ~w.threw
            /\ poly = w.poly
            /\ arrays = Collect(w)
            /\ ell = NoEllipse
            /\ cloned = NoEllipse
            /\ last = [threw |-> FALSE, tri |-> FALSE, id |-> 1, op |-> "init",
                       array |-> isArray(input), prevLen |-> 0, given |-> <<>>]
            /\ calls = 0

PSetShape(id) ==
    \E o \in Origins, input \in PointsInputs :
        /\ MayCall(id)
        /\ Returns("setShape", id,
                   Polygon_setShape(Allocate(World, input), id, Num(o[1]), Num(o[2]),
                                    Argument(World, input)),
                   isArray(input))

PSetVertices(id) ==
    \E input \in PointsInputs :
        /\ MayCall(id)
        /\ Returns("setVertices", id,
                   Polygon_setVertices(Allocate(World, input), id, Argument(World, input)),
                   isArray(input))

PTransform(id) ==
    \E m \in Matrices :
        /\ MayCall(id)
        /\ Returns("transform", id, Polygon_transform(World, id, m), TRUE)

PRotate(id) ==
    \E angle \in Angles, v \in Pivots :
        /\ MayCall(id)
        /\ Returns("rotate", id, Polygon_rotate(World, id, angle, v), TRUE)

PScale(id) ==
    \E a \in ScaleArgs :
        /\ MayCall(id)
        /\ Returns("scale", id, Polygon_scale(World, id, a[1], a[2]), TRUE)

PScaleV(id) ==
    \E a \in ScaleArgs :
        /\ MayCall(id)
        /\ a[2] # Undefined
        /\ Returns("scaleV", id, Polygon_scaleV(World, id, Vec(a[1], a[2][1])), TRUE)

PTranslate(id) ==
    \E args \in TranslateArgs :
        /\ MayCall(id)
        /\ Returns("translate", id, Polygon_translate(World, id, args), TRUE)

PGetIndices(id) ==
    /\ MayCall(id)
    /\ Returns("getIndices", id, Polygon_getIndices(World, id), TRUE)

PRecalc(id) ==
    /\ MayCall(id)
    /\ Returns("recalc", id, Polygon_recalc(World, id), TRUE)

PUpdateBounds(id) ==
    /\ MayCall(id)
    /\ Returns("updateBounds", id, Polygon_updateBounds(World, id), TRUE)

PGetBounds(id) ==
    /\ MayCall(id)
    /\ Returns("getBounds", id, Polygon_getBounds(World, id), TRUE)

PToIso(id) ==
    /\ MayCall(id)
    /\ Returns("toIso", id, Polygon_toIso(World, id), TRUE)

PTo2d(id) ==
    /\ MayCall(id)
    /\ Returns("to2d", id, Polygon_to2d(World, id), TRUE)

\* clone of Polygon 1; a clone that throws yields no object
PClone ==
    /\ MayCall(1)
    /\ ~poly[2].alive
    /\ LET w == Polygon_clone(World, 1, 2)
       IN  Returns("clone", 1, IF w.threw THEN [World EXCEPT !.threw = TRUE] ELSE w, TRUE)

NextPolygon ==
    \/ \E id \in PolyIds : PSetShape(id)
    \/ \E id \in PolyIds : PSetVertices(id)
    \/ \E id \in PolyIds : PTransform(id)
    \/ \E id \in PolyIds : PRotate(id)
    \/ \E id \in PolyIds : PScale(id)
    \/ \E id \in PolyIds : PScaleV(id)
    \/ \E id \in PolyIds : PTranslate(id)
    \/ \E id \in PolyIds : PGetIndices(id)
    \/ \E id \in PolyIds : PRecalc(id)
    \/ \E id \in PolyIds : PUpdateBounds(id)
    \/ \E id \in PolyIds : PGetBounds(id)
    \/ \E id \in PolyIds : PToIso(id)
    \/ \E id \in PolyIds : PTo2d(id)
    \/ PClone

Spec == InitPolygon /\ [][NextPolygon]_vars

\* one Polygon as constructed, then moved and edited, for the claims about
\* contains
NextContains ==
    \/ PTransform(1)
    \/ PRotate(1)
    \/ PScale(1)
    \/ PToIso(1)
    \/ PTo2d(1)
    \/ PTranslate(1)

SpecContains == InitPolygon /\ [][NextContains]_vars

\* the calls whose arithmetic goes through no rounded constant but that of
\* rotate: all but toIso and to2d
NextEdits ==
    \/ \E id \in PolyIds : PSetShape(id)
    \/ \E id \in PolyIds : PSetVertices(id)
    \/ \E id \in PolyIds : PTransform(id)
    \/ \E id \in PolyIds : PRotate(id)
    \/ \E id \in PolyIds : PScale(id)
    \/ \E id \in PolyIds : PScaleV(id)
    \/ \E id \in PolyIds : PTranslate(id)
    \/ \E id \in PolyIds : PGetIndices(id)
    \/ \E id \in PolyIds : PRecalc(id)
    \/ \E id \in PolyIds : PUpdateBounds(id)
    \/ \E id \in PolyIds : PGetBounds(id)
    \/ PClone

SpecEdits == InitPolygon /\ [][NextEdits]_vars

---------------------------------------------------------------------------
(* The Ellipse state machine *)

\* widths and heights (diameters)
Sizes == {1, 2, 4}

\* scale factors (x, then the optional y)
EScaleArgs == {<<QInt(1), Undefined>>, <<QInt(2), Undefined>>, <<QInt(-1), Undefined>>,
               <<QInt(1), <<QInt(2)>>>>, <<Q(1, 2), <<QInt(-1)>>>>}

ETranslateArgs ==
    UNION {{[length |-> 2, x |-> QInt(d[1]), y |-> QInt(d[2]), v |-> Vec(QInt(0), QInt(0))],
            [length |-> 1, x |-> QInt(0), y |-> QInt(0), v |-> Vec(QInt(d[1]), QInt(d[2]))]}
           : d \in Deltas}

EPivots == {Undefined, <<Vec(QInt(1), QInt(0))>>}

ECall(op, given) ==
    [threw |-> FALSE, tri |-> FALSE, id |-> 0, op |-> op, array |-> TRUE, prevLen |-> 0,
     given |-> given]

EReturns(op, this, given) ==
    /\ calls < MaxCalls
    /\ ell' = this
    /\ last' = ECall(op, given)
    /\ calls' = calls + 1
    /\ UNCHANGED <<poly, arrays, cloned>>

InitEllipse ==
    \E o \in Origins, w \in Sizes, h \in Sizes :
        /\ ell = Ellipse_setShape(NoEllipse, QInt(o[1]), QInt(o[2]), QInt(w), QInt(h))
        /\ cloned = NoEllipse
        /\ poly = NoWorld.poly
        /\ arrays = NoWorld.arrays
        /\ last = ECall("init", <<o[1], o[2], w, h>>)
        /\ calls = 0

ESetShape ==
    \E o \in Origins, w \in Sizes, h \in Sizes :
        EReturns("setShape", Ellipse_setShape(ell, QInt(o[1]), QInt(o[2]), QInt(w), QInt(h)),
                 <<o[1], o[2], w, h>>)

ERotate ==
    \E angle \in Angles, v \in EPivots :
        EReturns("rotate", Ellipse_rotate(ell, angle, v), <<>>)

EScale ==
    \E a \in EScaleArgs : EReturns("scale", Ellipse_scale(ell, a[1], a[2]), <<>>)

EScaleV ==
    \E a \in EScaleArgs :
        /\ a[2] # Undefined
        /\ EReturns("scaleV", Ellipse_scaleV(ell, Vec(a[1], a[2][1])), <<>>)

ETransform ==
    \E m \in Matrices : EReturns("transform", Ellipse_transform(ell, m), <<>>)

ETranslate ==
    \E args \in ETranslateArgs : EReturns("translate", Ellipse_translate(ell, args), <<>>)

\* clone() returns a new Ellipse, kept in cloned, and leaves this one alone
EClone ==
    /\ calls < MaxCalls
    /\ cloned' = Ellipse_clone(ell)
    /\ last' = ECall("clone", <<>>)
    /\ calls' = calls + 1
    /\ UNCHANGED <<poly, arrays, ell>>

NextEllipse ==
    \/ ESetShape
    \/ ERotate
    \/ EScale
    \/ EScaleV
    \/ ETransform
    \/ ETranslate
    \/ EClone

SpecEllipse == InitEllipse /\ [][NextEllipse]_vars

---------------------------------------------------------------------------
(* What a caller can observe of a Polygon *)

Alive == {id \in PolyIds : poly[id].alive}

Points(id) == PointsOf(World, id)

\* (the bounds are what getBounds() returns)
Observable(w, id) ==
    [pos |-> w.poly[id].pos, null |-> Polygon_pointsIsNull(w, id),
     points |-> PointsOf(w, id), edges |-> w.poly[id].edges,
     normals |-> w.poly[id].normals, indices |-> w.poly[id].indices,
     bounds |-> Polygon_getBounds(w, id).poly[id].bounds]

\* the axis-aligned box enclosing origin + vertices, computed from scratch
EnclosingBox(pos, points) ==
    Box(RAdd(pos.x, SetMin({points[i].x : i \in 1..Len(points)})),
        RAdd(pos.y, SetMin({points[i].y : i \in 1..Len(points)})),
        RAdd(pos.x, SetMax({points[i].x : i \in 1..Len(points)})),
        RAdd(pos.y, SetMax({points[i].y : i \in 1..Len(points)})))

---------------------------------------------------------------------------
(* C1 *)

\* C1: for every Polygon with at least 3 vertices, whatever calls were made, the
\* bounds are the box enclosing origin + vertices
C1_BoundsEncloseVertices ==
    \A id \in Alive :
        Len(Points(id)) >= 3 =>
            Observable(World, id).bounds = EnclosingBox(poly[id].pos, Points(id))

---------------------------------------------------------------------------
(* C2 *)

\* C2: a cached, non-empty index list is the triangulator's result for the current
\* vertices (never a stale one)
C2_IndicesAreCurrent ==
    \A id \in Alive :
        Len(poly[id].indices) > 0 => poly[id].indices = earcut(Flat(Points(id)))

---------------------------------------------------------------------------
(* C3 *)

\* the points contains() is sampled at
ESamples == {<<QInt(x), QInt(y)>> : x \in -3..3, y \in -3..3}

\* (x - cx)^2 / a^2 + (y - cy)^2 / b^2 <= 1
InEllipse(cx, cy, a, b, x, y) ==
    QLe(QAdd(QDiv(QMul(QSub(x, cx), QSub(x, cx)), QMul(a, a)),
             QDiv(QMul(QSub(y, cy), QSub(y, cy)), QMul(b, b))), QInt(1))

\* C3: after setShape(cx, cy, w, h) with w, h > 0, radiusSq = ((w/2)^2, (h/2)^2) and
\* contains(x, y) is exactly the implicit ellipse equation with semi-axes w/2 and h/2
C3_RadiusSqAndContains ==
    last.given # <<>> =>
        LET cx == QInt(last.given[1])
            cy == QInt(last.given[2])
            a == Q(last.given[3], 2)
            b == Q(last.given[4], 2)
        IN  /\ ell.radiusSq = Vec(QMul(a, a), QMul(b, b))
            /\ \A p \in ESamples :
                   Ellipse_contains(ell, p[1], p[2]) = {InEllipse(cx, cy, a, b, p[1], p[2])}

---------------------------------------------------------------------------
(* C4 *)

\* C4: the bounds of an Ellipse are centred on pos, with half extents radiusV
C4_BoundsCentredOnPos ==
    /\ ell.bounds.min = Vec(QSub(ell.pos.x, ell.radiusV.x), QSub(ell.pos.y, ell.radiusV.y))
    /\ ell.bounds.max = Vec(QAdd(ell.pos.x, ell.radiusV.x), QAdd(ell.pos.y, ell.radiusV.y))

---------------------------------------------------------------------------
(* C5 *)

\* C5: between calls, also after a call that threw, every Polygon has at least 3
\* vertices and as many edges and normals as vertices
C5_AtLeastThreeVertices ==
    \A id \in Alive :
        /\ Len(Points(id)) >= 3
        /\ Len(poly[id].edges) = Len(Points(id))
        /\ Len(poly[id].normals) = Len(Points(id))

---------------------------------------------------------------------------
(* C6 *)

VertexEdits ==
    {"setVertices", "setShape", "transform", "rotate", "scale", "scaleV", "toIso", "to2d"}

Dot(n, e) == RAdd(RMul(n.x, e.x), RMul(n.y, e.y))

\* C6: a Polygon with n >= 3 vertices has exactly n edges and n normals, edge i
\* running from vertex i to vertex (i+1) mod n, and normal i the unit
\* perpendicular of edge i
C6_EdgesAndNormalsMatchVertices ==
    \A id \in Alive :
        LET points == Points(id)
            n == Len(points)
            edges == poly[id].edges
            normals == poly[id].normals
        IN  n >= 3 =>
                /\ Len(edges) = n
                /\ Len(normals) = n
                /\ \A i \in 1..n :
                       /\ edges[i] = Vec(RSub(points[(i % n) + 1].x, points[i].x),
                                         RSub(points[(i % n) + 1].y, points[i].y))
                       /\ RIsZero(Dot(normals[i], edges[i]))
                       /\ normals[i].x = edges[i].y /\ normals[i].y = RNeg(edges[i].x)
                       /\ normals[i].d = Dot(edges[i], edges[i])

\* a successful edit has replaced four vertices by three
C6_Witness ==
    /\ last.op \in VertexEdits
    /\ ~last.threw
    /\ last.prevLen = 4
    /\ Len(Points(last.id)) = 3
    /\ Len(poly[last.id].edges) = 3

---------------------------------------------------------------------------
(* C7 *)

\* the sign of the cross product of b - a and c - a
Cross(a, b, c) ==
    RSgn(RSub(RMul(RSub(b.x, a.x), RSub(c.y, a.y)), RMul(RSub(b.y, a.y), RSub(c.x, a.x))))

Succ(points, i) == points[(i % Len(points)) + 1]

\* the sign of the signed area
Area2(points) ==
    LET n == Len(points)
        sum[k \in 0..n] ==
            IF k = 0 THEN Num(0)
            ELSE RAdd(sum[k - 1], RSub(RMul(points[k].x, Succ(points, k).y),
                                       RMul(Succ(points, k).x, points[k].y)))
    IN  RSgn(sum[n])

\* strictly convex: every other vertex lies strictly on the inner side of every
\* edge; area2 is Area2(points)
Convex(points, area2) ==
    /\ Len(points) >= 3
    /\ \A i \in 1..Len(points), k \in 1..Len(points) :
           (points[k] # points[i] /\ points[k] # Succ(points, i)) =>
               Cross(points[i], Succ(points, i), points[k]) * area2 > 0

Offset(pos, p) == Vec(RAdd(pos.x, p.x), RAdd(pos.y, p.y))

\* world is origin + vertices: for each edge, the side of it that (x, y) is on,
\* 1 for the inner side, -1 for the outer side, 0 for on its line
Sides(world, area2, x, y) ==
    [i \in 1..Len(world) |-> Cross(world[i], Succ(world, i), Vec(x, y)) * area2]

StrictlyInside(world, area2, x, y) ==
    \A i \in 1..Len(world) : Sides(world, area2, x, y)[i] > 0

StrictlyOutside(world, area2, x, y) ==
    \E i \in 1..Len(world) : Sides(world, area2, x, y)[i] < 0

WorldPoints(id) == [i \in 1..Len(Points(id)) |-> Offset(poly[id].pos, Points(id)[i])]

\* the points contains() is sampled at
Samples == [k \in 1..25 |-> <<Num(((k - 1) % 5) - 1), Num(((k - 1) \div 5) - 1)>>]

Square10 == <<IntVec(0, 0), IntVec(10, 0), IntVec(10, 10), IntVec(0, 10)>>

\* for the convex Polygon id, every value contains can return is true strictly
\* inside and false strictly outside origin + vertices, and at each sampled
\* point, or, with offEdges, at each sampled point strictly inside or outside,
\* no value contains can return after a translate, which is the same in both
\* call forms, differs from one it can return before.  at[k] is what contains
\* can return at Samples[k] and whether that point is strictly inside, and
\* strictly outside
ContainsConvex(id, offEdges) ==
    LET area2 == Area2(Points(id))
        world == WorldPoints(id)
        at == [k \in 1..Len(Samples) |->
                  LET sides == Sides(world, area2, Samples[k][1], Samples[k][2])
                  IN  <<Polygon_contains(World, id, Samples[k][1], Samples[k][2]),
                        \A i \in 1..Len(sides) : sides[i] > 0,
                        \E i \in 1..Len(sides) : sides[i] < 0>>]
    IN  Convex(Points(id), area2) =>
            /\ \A k \in 1..Len(at) :
                   \A before \in at[k][1] :
                       /\ at[k][2] => before
                       /\ at[k][3] => ~before
            /\ \A d \in Deltas :
                   \A moved \in {Polygon_translate(World, id, ArgsXY(Num(d[1]), Num(d[2])))} :
                       /\ moved = Polygon_translate(World, id, ArgsV(IntVec(d[1], d[2])))
                       /\ \A k \in 1..Len(at) :
                              (offEdges => at[k][2] \/ at[k][3]) =>
                                  \A after \in Polygon_contains(moved, id,
                                                   RAdd(Samples[k][1], Num(d[1])),
                                                   RAdd(Samples[k][2], Num(d[2]))) :
                                      \A before \in at[k][1] : after = before

\* C7: for a convex Polygon, contains is true strictly inside origin + vertices
\* and false strictly outside; contains moves with translate, at every point;
\* and the square of side 10 contains (5, 5) and not (-1, 5)
C7_ContainsConvexPolygon ==
    /\ \A id \in Alive : ContainsConvex(id, FALSE)
    /\ Polygon_containsPoint(IntVec(0, 0), Square10, Num(5), Num(5)) = {TRUE}
    /\ Polygon_containsPoint(IntVec(0, 0), Square10, Num(-1), Num(5)) = {FALSE}

\* C7, amended: for a convex Polygon, contains is true strictly inside origin +
\* vertices and false strictly outside; contains moves with translate at every
\* point strictly inside or strictly outside (on an edge of a Polygon with
\* rounded vertices it need not); and the square of side 10 contains (5, 5)
\* and not (-1, 5)
C7_ContainsOffEdges ==
    /\ \A id \in Alive : ContainsConvex(id, TRUE)
    /\ Polygon_containsPoint(IntVec(0, 0), Square10, Num(5), Num(5)) = {TRUE}
    /\ Polygon_containsPoint(IntVec(0, 0), Square10, Num(-1), Num(5)) = {FALSE}

\* a convex Polygon with a rounded vertex, away from the origin (0, 0), moved
\* by translate, with sampled points strictly inside and strictly outside
C7_Witness ==
    \E id \in Alive :
        /\ last.op = "translate" /\ last.id = id
        /\ Convex(Points(id), Area2(Points(id)))
        /\ poly[id].pos # IntVec(0, 0)
        /\ \E i \in 1..Len(Points(id)) : Points(id)[i].x[4] = 1
        /\ \E k \in 1..Len(Samples) :
               StrictlyInside(WorldPoints(id), Area2(Points(id)), Samples[k][1], Samples[k][2])
        /\ \E k \in 1..Len(Samples) :
               StrictlyOutside(WorldPoints(id), Area2(Points(id)), Samples[k][1], Samples[k][2])

---------------------------------------------------------------------------
(* C8 *)

\* the calls that change a Polygon
Edits == VertexEdits \cup {"translate", "getIndices", "recalc", "updateBounds", "getBounds"}

\* C8: a clone has the origin and the vertex values of the original and contains
\* the same points (its comparisons are those of the original); and a call on one of the two Polygons leaves the origin,
\* vertices, edges, normals, indices and bounds of the other as they were
C8_CloneIsIndependent ==
    /\ [](last.op = "clone" /\ ~last.threw =>
            /\ poly[2].alive
            /\ poly[2].pos = poly[1].pos
            /\ Points(2) = Points(1)
            /\ \A k \in 1..Len(Samples) :
                   Polygon_contains(World, 2, Samples[k][1], Samples[k][2])
                       = Polygon_contains(World, 1, Samples[k][1], Samples[k][2]))
    /\ [][\A i \in PolyIds, j \in PolyIds :
              (i # j /\ poly[j].alive /\ last'.id = i /\ last'.op \in Edits) =>
                  Observable(World, j)' = Observable(World, j)]_vars

\* the clone has been edited, and its vertices are no longer the original's
C8_Witness ==
    /\ poly[1].alive /\ poly[2].alive
    /\ last.id = 2
    /\ last.op \in VertexEdits
    /\ ~last.threw
    /\ Points(2) # Points(1)

---------------------------------------------------------------------------
(* C9 *)

\* C9: scale(1) leaves the vertices, edges, normals and bounds of a Polygon, and
\* the center, radius, radiusV, radiusSq and bounds of an Ellipse, as they were
C9_ScaleByOneChangesNothing ==
    /\ \A id \in Alive :
           LET w == Polygon_scale(World, id, 1, Undefined)
           IN  /\ PointsOf(w, id) = Points(id)
               /\ w.poly[id].edges = poly[id].edges
               /\ w.poly[id].normals = poly[id].normals
               /\ w.poly[id].bounds = poly[id].bounds
    /\ Constructed =>
           LET scaled == Ellipse_scale(ell, QInt(1), Undefined)
           IN  /\ scaled.pos = ell.pos
               /\ scaled.radius = ell.radius
               /\ scaled.radiusV = ell.radiusV
               /\ scaled.radiusSq = ell.radiusSq
               /\ scaled.bounds = ell.bounds

---------------------------------------------------------------------------
(* C10 *)

\* C10: setShape(x, y, points) and setVertices(points) with points not an array
\* throw nothing and leave origin, vertices, edges, normals, indices and bounds
\* as they were
C10_NonArrayLeavesShapeUnchanged ==
    \A id \in Alive :
        /\ LET w == Polygon_setVertices(World, id, NotArray)
           IN  ~w.threw /\ Observable(w, id) = Observable(World, id)
        /\ \A o \in Origins :
               LET w == Polygon_setShape(World, id, Num(o[1]), Num(o[2]), NotArray)
               IN  ~w.threw /\ Observable(w, id) = Observable(World, id)

---------------------------------------------------------------------------
(* A Polygon and an Ellipse side by side: the Ellipse is constructed by a call *)

ENew ==
    \E o \in Origins, w \in Sizes, h \in Sizes :
        /\ ~Constructed
        /\ EReturns("init", Ellipse_setShape(NoEllipse, QInt(o[1]), QInt(o[2]), QInt(w),
                                             QInt(h)),
                    <<o[1], o[2], w, h>>)

NextShapes ==
    \/ PSetShape(1)
    \/ PSetVertices(1)
    \/ PScale(1)
    \/ PGetIndices(1)
    \/ PTranslate(1)
    \/ ENew
    \/ Constructed /\ ESetShape
    \/ Constructed /\ EScale
    \/ Constructed /\ ETranslate

SpecShapes == InitPolygon /\ [][NextShapes]_vars

---------------------------------------------------------------------------
(* C11 *)

\* the same call form with the offset negated
Negated(args) ==
    [length |-> args.length, x |-> RNeg(args.x), y |-> RNeg(args.y),
     v |-> Vec(RNeg(args.v.x), RNeg(args.v.y))]

ENegated(args) ==
    [length |-> args.length, x |-> QNeg(args.x), y |-> QNeg(args.y),
     v |-> Vec(QNeg(args.v.x), QNeg(args.v.y))]

\* a translate of Polygon id by args moves the origin and the bounds by the
\* offset and nothing else, and the negated translate moves them back
PolygonTranslateRoundTrip(id, args) ==
    LET dx == IF args.length = 2 THEN args.x ELSE args.v.x
        dy == IF args.length = 2 THEN args.y ELSE args.v.y
        there == Polygon_translate(World, id, args)
        back == Polygon_translate(there, id, Negated(args))
    IN  /\ ~there.threw /\ ~back.threw
        /\ there.poly[id].pos = Vec(RAdd(poly[id].pos.x, dx), RAdd(poly[id].pos.y, dy))
        /\ Observable(there, id).bounds
               = Bounds_translate(Observable(World, id).bounds, dx, dy)
        /\ Observable(there, id) = [Observable(World, id) EXCEPT
                                        !.pos = there.poly[id].pos,
                                        !.bounds = Observable(there, id).bounds]
        /\ there.arrays = arrays
        /\ Observable(back, id) = Observable(World, id)

EllipseTranslateRoundTrip(args) ==
    LET dx == IF args.length = 2 THEN args.x ELSE args.v.x
        dy == IF args.length = 2 THEN args.y ELSE args.v.y
        there == Ellipse_translate(ell, args)
        back == Ellipse_translate(there, ENegated(args))
    IN  /\ there.pos = Vec(QAdd(ell.pos.x, dx), QAdd(ell.pos.y, dy))
        /\ there.bounds = QBounds_translate(ell.bounds, dx, dy)
        /\ there = [ell EXCEPT !.pos = there.pos, !.bounds = there.bounds]
        /\ back = ell

\* C11: for a Polygon and for an Ellipse, in the (x, y) and in the vector call
\* form, translate by an offset and then by the negated offset restores
\* origin/center and bounds, and a translate changes origin/center and bounds
\* only: vertices, edges, normals and cached indices of a Polygon, and radius,
\* ratio, radiusV and radiusSq of an Ellipse, stay as they were
C11_TranslateRoundTrip ==
    /\ [](/\ \A id \in Alive : \A args \in TranslateArgs :
                 PolygonTranslateRoundTrip(id, args)
          /\ Constructed =>
                 \A args \in ETranslateArgs : EllipseTranslateRoundTrip(args))
    /\ [][last'.op = "translate" =>
            IF last'.id = 0
            THEN ell' = [ell EXCEPT !.pos = ell'.pos, !.bounds = ell'.bounds]
            ELSE /\ arrays' = arrays
                 /\ poly' = [poly EXCEPT ![last'.id].pos = poly'[last'.id].pos,
                                         ![last'.id].bounds = poly'[last'.id].bounds]]_vars

\* a Polygon with cached indices and an Ellipse wider than high, one of them
\* just translated away from where it was constructed
C11_Witness ==
    /\ last.op = "translate"
    /\ Len(poly[1].indices) > 0
    /\ Constructed
    /\ ell.radiusV.x # ell.radiusV.y

---------------------------------------------------------------------------
(* C12 *)

\* C12: in every state of an Ellipse reached from construction by setShape,
\* translate, rotate and scale calls, negative scale factors included,
\* radius >= 0, radiusV.x <= radius and radiusV.y <= radius with equality on
\* the larger axis, both components of ratio are <= 1, and ratio = (1, 1)
\* when width equals height
C12_RadiusDominatesAxes ==
    Constructed =>
        /\ QLe(QInt(0), ell.radius)
        /\ QLe(ell.radiusV.x, ell.radius)
        /\ QLe(ell.radiusV.y, ell.radius)
        /\ QMax(ell.radiusV.x, ell.radiusV.y) = ell.radius
        /\ QLe(ell.ratio.x, QInt(1))
        /\ QLe(ell.ratio.y, QInt(1))
        /\ ell.radiusV.x = ell.radiusV.y => ell.ratio = Vec(QInt(1), QInt(1))

====
